---------------------------- MODULE Spec2Model ----------------------------
(***************************************************************************)
(* Model of the steam_title_crawler capture pipeline (db_create.py) and of *)
(* the snapshot catalog / history queries (visualize_database.py).         *)
(*                                                                         *)
(* Text is modelled as a sequence of one-character strings, so that        *)
(* strftime, strptime and the price regular expression are computed on     *)
(* characters as the code computes them.                                   *)
(***************************************************************************)
EXTENDS Integers, Sequences, FiniteSets, Bags, TLC

\* ------------------------------------------------------------------ bounds
\* Largest max_pages a capture run is started with, and the number of
\* pages the capture runs of one behaviour request together.
MaxPages == 3
\* Worker ceiling of the pool.  The program uses 50 (db_create.py:143); the
\* model keeps the ceiling below MaxPages so that URLs have to wait.
MaxWorkers == 2
\* Capture runs in one behaviour (db_create's module level runs once in a
\* process; earlier runs have left their snapshots in the initial store).
MaxRuns == 1
\* Seconds the clock may advance past its initial value.
MaxTicks == 1

\* Tables in a store the catalog queries are applied to.
MaxTables == 3

\* Result rows in a document handed to parse_page.
MaxRows == 2

\* --------------------------------------------------------------- characters
DigitChars == <<"0", "1", "2", "3", "4", "5", "6", "7", "8", "9">>

IsDigit(c) == \E i \in 1..10 : DigitChars[i] = c

DigitVal(c) == (CHOOSE i \in 1..10 : DigitChars[i] = c) - 1

\* Python's f"{n:02d}" / f"{n:04d}" as produced by strftime's %m %d %H %M %S / %Y.
Str2(n) == <<DigitChars[((n \div 10) % 10) + 1], DigitChars[(n % 10) + 1]>>

Str4(n) == <<DigitChars[((n \div 1000) % 10) + 1], DigitChars[((n \div 100) % 10) + 1]>>
           \o Str2(n % 100)

\* s[a..b] as a sequence (empty when a > b), Python's s[a-1:b].
Slice(s, a, b) == [i \in 1..(IF b >= a THEN b - a + 1 ELSE 0) |-> s[a + i - 1]]

\* int() of a run of digit characters.
RECURSIVE IntOf(_)
IntOf(s) == IF Len(s) = 0 THEN 0
            ELSE 10 * IntOf(Slice(s, 1, Len(s) - 1)) + DigitVal(s[Len(s)])

AllDigits(s) == \A i \in 1..Len(s) : IsDigit(s[i])

\* ------------------------------------------------------------------- clock
\* datetime values are <<year, month, day, hour, minute, second>>.  The
\* clock counts seconds from 2024-01-01 00:00:00 UTC and stays inside
\* January 2024.
DateTimeOf(secs) == <<2024, 1, 1 + (secs \div 86400), (secs \div 3600) % 24,
                      (secs \div 60) % 60, secs % 60>>

\* datetime comparison (lexicographic on the fields).
RECURSIVE DateLess(_, _)
DateLess(a, b) == IF Len(a) = 0 THEN FALSE
                  ELSE IF a[1] # b[1] THEN a[1] < b[1]
                  ELSE DateLess(Tail(a), Tail(b))

\* now.strftime('%Y%m%d_%H%M%S')
strftime(dt) == Str4(dt[1]) \o Str2(dt[2]) \o Str2(dt[3]) \o <<"_">>
                \o Str2(dt[4]) \o Str2(dt[5]) \o Str2(dt[6])

IsLeap(y) == (y % 4 = 0 /\ y % 100 # 0) \/ y % 400 = 0

DaysInMonth(y, m) == IF m = 2 THEN (IF IsLeap(y) THEN 29 ELSE 28)
                     ELSE IF m \in {4, 6, 9, 11} THEN 30 ELSE 31

\* The regular expressions _strptime builds for the directives: does the
\* directive match the w characters of s that start at p?  Two-character
\* alternatives come first in every directive.
FieldMatches(f, s, p, w) ==
    /\ p + w - 1 <= Len(s)
    /\ AllDigits(Slice(s, p, p + w - 1))
    /\ LET v == IntOf(Slice(s, p, p + w - 1)) IN
       CASE f = "Y" -> w = 4
         [] f = "m" -> IF w = 2 THEN v \in 1..12 ELSE v \in 1..9
         [] f = "d" -> IF w = 2 THEN v \in 1..31 ELSE v \in 1..9
         [] f = "H" -> IF w = 2 THEN v \in 0..23 ELSE TRUE
         [] f = "M" -> IF w = 2 THEN v \in 0..59 ELSE TRUE
         [] f = "S" -> IF w = 2 THEN v \in 0..61 ELSE TRUE

\* First match of the format's regex at the start of s, in the regex
\* engine's backtracking order: <<TRUE, values, end>> or <<FALSE>>.
\* fmt is the list of directives still to match ("_" is the literal).
RECURSIVE RegexMatch(_, _, _, _)
RegexMatch(fmt, s, p, vals) ==
    IF Len(fmt) = 0 THEN <<TRUE, vals, p - 1>>
    ELSE IF fmt[1] = "_"
         THEN IF p <= Len(s) /\ s[p] = "_"
              THEN RegexMatch(Tail(fmt), s, p + 1, vals)
              ELSE <<FALSE>>
    ELSE IF fmt[1] = "Y"
         THEN IF FieldMatches("Y", s, p, 4)
              THEN RegexMatch(Tail(fmt), s, p + 4,
                              Append(vals, IntOf(Slice(s, p, p + 3))))
              ELSE <<FALSE>>
    ELSE LET two == IF FieldMatches(fmt[1], s, p, 2)
                    THEN RegexMatch(Tail(fmt), s, p + 2,
                                    Append(vals, IntOf(Slice(s, p, p + 1))))
                    ELSE <<FALSE>>
         IN IF two[1] THEN two
            ELSE IF FieldMatches(fmt[1], s, p, 1)
                 THEN RegexMatch(Tail(fmt), s, p + 1,
                                 Append(vals, IntOf(Slice(s, p, p))))
                 ELSE <<FALSE>>

\* datetime.strptime(s, '%Y%m%d_%H%M%S'): <<TRUE, datetime>>, or <<FALSE>>
\* where Python raises ValueError (no match, unconverted data remains,
\* second out of 0..59, day out of range for the month).
strptime(s) ==
    LET m == RegexMatch(<<"Y", "m", "d", "_", "H", "M", "S">>, s, 1, <<>>) IN
    IF ~m[1] THEN <<FALSE>>
    ELSE IF m[3] # Len(s) THEN <<FALSE>>
    ELSE IF m[2][6] > 59 THEN <<FALSE>>
    ELSE IF m[2][3] > DaysInMonth(m[2][1], m[2][2]) THEN <<FALSE>>
    ELSE <<TRUE, m[2]>>


\* ------------------------------------------------------------------ parsing
WhiteSpace == {" "}

\* str.strip()
RECURSIVE LStrip(_)
LStrip(s) == IF Len(s) > 0 /\ s[1] \in WhiteSpace THEN LStrip(Tail(s)) ELSE s

RECURSIVE RStrip(_)
RStrip(s) == IF Len(s) > 0 /\ s[Len(s)] \in WhiteSpace
             THEN RStrip(Slice(s, 1, Len(s) - 1)) ELSE s

Strip(s) == LStrip(RStrip(s))

\* The character class [\d.,] of the price pattern.
InPriceClass(c) == IsDigit(c) \/ c \in {".", ","}

\* Length of the longest run from position p of characters that are
\* (inClass = TRUE) or are not (inClass = FALSE) in [\d.,].
RECURSIVE RunLen(_, _, _)
RunLen(s, p, inClass) ==
    IF p <= Len(s) /\ (InPriceClass(s[p]) = inClass)
    THEN 1 + RunLen(s, p + 1, inClass) ELSE 0

\* re.match(r'([\d.,]+)([^\d.,]+)', text): <<TRUE, group1, group2>> or <<FALSE>>.
PriceMatch(text) ==
    LET n1 == RunLen(text, 1, TRUE)
        n2 == RunLen(text, n1 + 1, FALSE)
    IN IF n1 >= 1 /\ n2 >= 1
       THEN <<TRUE, Slice(text, 1, n1), Slice(text, n1 + 1, n1 + n2)>>
       ELSE <<FALSE>>

SentinelPrice == <<"0", ",", "-", "-">>
SentinelCurrency == <<"€">>

\* A node or attribute that find() / [] looks up: present with its text,
\* or absent.
Absent == [present |-> FALSE, text |-> <<>>]
Node(t) == [present |-> TRUE, text |-> t]

\* One <a class="search_result_row">: its <span class="title">, its href
\* attribute and its <div class="discount_final_price">.
Row(title, href, price) == [title |-> title, href |-> href, price |-> price]

\* The loop body with a row without a price fragment skipped.
ParseRow_DropUnpriced(result) ==
    IF ~result.title.present \/ ~result.price.present
    THEN [raised |-> FALSE, skipped |-> TRUE, rec |-> <<>>]
    ELSE IF ~result.href.present
    THEN [raised |-> TRUE, skipped |-> FALSE, rec |-> <<>>]
    ELSE LET game_name == Strip(result.title.text)
             m == PriceMatch(Strip(result.price.text))
         IN [raised |-> FALSE, skipped |-> FALSE,
             rec |-> [name |-> game_name,
                      price |-> IF m[1] THEN m[2] ELSE SentinelPrice,
                      currency |-> IF m[1] THEN Strip(m[3]) ELSE SentinelCurrency,
                      url |-> result.href.text]]

\* Body of the loop of parse_page for one result row, given the list built
\* so far: the new list, or raised = TRUE where result['href'] raises
\* KeyError.  skipped = TRUE is the `continue` of a row without a title.
ParseRow(result) ==
    IF ~result.title.present
    THEN [raised |-> FALSE, skipped |-> TRUE, rec |-> <<>>]
    ELSE IF ~result.href.present
    THEN [raised |-> TRUE, skipped |-> FALSE, rec |-> <<>>]
    ELSE LET game_name == Strip(result.title.text)
             m == IF result.price.present
                  THEN PriceMatch(Strip(result.price.text)) ELSE <<FALSE>>
         IN [raised |-> FALSE, skipped |-> FALSE,
             rec |-> [name |-> game_name,
                      price |-> IF m[1] THEN m[2] ELSE SentinelPrice,
                      currency |-> IF m[1] THEN Strip(m[3]) ELSE SentinelCurrency,
                      url |-> result.href.text]]

RECURSIVE ParseRows(_, _)
ParseRows(rows, games_details) ==
    IF Len(rows) = 0 THEN [raised |-> FALSE, value |-> games_details]
    ELSE LET r == ParseRow(rows[1]) IN
         IF r.raised THEN [raised |-> TRUE, value |-> <<>>]
         ELSE IF r.skipped THEN ParseRows(Tail(rows), games_details)
         ELSE ParseRows(Tail(rows), Append(games_details, r.rec))

\* A fetched text is the sequence of its result rows; None is no text.
None == [isNone |-> TRUE, rows |-> <<>>]
Text(rows) == [isNone |-> FALSE, rows |-> rows]

\* parse_page(content): `if not content: return []` covers None and the
\* empty text.
parse_page(content) ==
    IF content.isNone \/ Len(content.rows) = 0
    THEN [raised |-> FALSE, value |-> <<>>]
    ELSE ParseRows(content.rows, <<>>)

\* ------------------------------------------------------------ input universe
X == <<"X">>
Y == <<"Y">>
Href1 == <<"/", "a">>
Href2 == <<"/", "b">>

\* Two rows with a title; the second has no price fragment.
DocTwo == <<Row(Node(X), Node(Href1), Node(<<"1", "9", ",", "9", "9", "€">>)),
            Row(Node(Y), Node(Href2), Absent)>>
\* A row without a title, then a row whose price does not have the shape.
DocSkip == <<Row(Absent, Node(Href2), Node(<<"5", ",", "0", "0", "€">>)),
             Row(Node(<<" ", "X", " ">>), Node(Href1), Node(<<"F", "r", "e", "e">>))>>
\* A row with a title but without href, after a good row.
DocNoHref == <<Row(Node(Y), Node(Href2), Node(<<" ", "6", ",", "0", "0", " ", "€", " ">>)),
               Row(Node(X), Absent, Absent)>>
\* A title node whose text is blank.
DocBlank == <<Row(Node(<<" ">>), Node(Href1), Node(<<"$", "5">>))>>

Docs == {DocTwo, DocSkip, DocNoHref, DocBlank}

\* What the network gives requests.get for one URL: a connection-level
\* failure, or a response with a status code and a body.
ConnError == [error |-> TRUE, status |-> 0, body |-> <<>>]
Http(status, body) == [error |-> FALSE, status |-> status, body |-> body]

\* The documents the network serves in a capture run.
ServedDocs == {DocTwo, DocNoHref, DocBlank}

Responses == {ConnError, Http(404, DocTwo)} \cup {Http(200, d) : d \in ServedDocs}

\* int -> decimal digits, str(n).
RECURSIVE DecStr(_)
DecStr(n) == IF n < 10 THEN <<DigitChars[n + 1]>>
             ELSE DecStr(n \div 10) \o <<DigitChars[(n % 10) + 1]>>

search_url == <<"search/?sort_by=Name_ASC">>

\* Table names found in the store when the program starts.
NotADate == <<"n", "o", "t", "_", "a", "_", "d", "a", "t", "e">>
SqliteSequence == <<"sqlite_sequence">>
TEarly == strftime(<<2023, 12, 31, 23, 59, 59>>)
TLate == strftime(<<2024, 1, 2, 0, 0, 0>>)
\* Parses, with one-digit month and day, to 2024-01-02 00:00:00, the
\* instant of TLate.
TShort == <<"2", "0", "2", "4", "1", "2", "_", "0", "0", "0", "0", "0", "0">>

\* First second of the clock.
Clock0 == 59

\* The name a snapshot gets in the first second of the clock.
TClock == strftime(DateTimeOf(Clock0))

\* ---------------------------------------------------------------- the store
StoredRow(id, g) == [id |-> id, name |-> g.name, price |-> g.price,
                     currency |-> g.currency, url |-> g.url]

Game(n, p) == [name |-> n, price |-> p, currency |-> SentinelCurrency, url |-> Href1]

P500 == <<"5", ",", "0", "0">>
P600 == <<"6", ",", "0", "0">>

Range(f) == {f[i] : i \in DOMAIN f}

\* A store: master is the list of table names in sqlite_master order, rows
\* the content of each snapshot table in rowid order, autoinc the content
\* of sqlite_sequence.
Store(m, r, a) == [master |-> m, rows |-> r, autoinc |-> a]

InitStores ==
    { Store(<<>>, <<>>, <<>>),
      Store(<<TEarly, SqliteSequence, NotADate, TLate>>,
            (TEarly :> <<StoredRow(1, Game(X, P500))>>)
              @@ (NotADate :> <<>>)
              @@ (TLate :> <<StoredRow(1, Game(Y, P500)), StoredRow(2, Game(X, P600))>>),
            (TEarly :> 1) @@ (TLate :> 2)),
      Store(<<NotADate, TClock, SqliteSequence>>,
            (NotADate :> <<>>)
              @@ (TClock :> <<StoredRow(1, Game(X, P600)), StoredRow(2, Game(X, P500))>>),
            (TClock :> 2)) }

\* -------------------------------------------------------------------- state
VARIABLES
    clock,              \* seconds since 2024-01-01 00:00:00 UTC
    master,             \* sqlite_master: table names in rowid order
    rows,               \* table name -> its rows, in rowid order
    autoinc,            \* sqlite_sequence: table name -> largest id given
    pc,                 \* position of the capture run (db_create.py:158-170)
    runs,               \* capture runs started
    pages,              \* pages requested over all capture runs
    urls,               \* get_steam_games_parallel: urls
    submitted,          \* how many urls executor.submit has taken
    fstate,             \* per url: state of its future
    resp,               \* per url: what the network answered
    result,             \* per url: the future's result (fetch_page's return)
    issued,             \* per url: calls of requests.get made for it
    order,              \* urls in the order as_completed yielded them
    logged,             \* urls whose processing printed "Error processing"
    all_games_details,  \* get_steam_games_parallel: all_games_details
    games,              \* module level: games
    table_name_o,       \* module level: table_name_o
    created,            \* whether the run's CREATE TABLE made a new table
    view                \* the last query made since the latest capture run
                        \* began, and what it returned

storeVars == <<master, rows, autoinc>>
poolVars == <<urls, submitted, fstate, resp, result, issued, order, logged,
              all_games_details>>
runVars == <<pc, runs, pages, games, table_name_o, created>>
vars == <<clock, master, rows, autoinc, pc, runs, pages, urls, submitted,
          fstate, resp, result, issued, order, logged, all_games_details,
          games, table_name_o, created, view>>

NoView == [op |-> "none", arg |-> <<>>, ret |-> <<>>, raised |-> FALSE,
           fault |-> [db |-> "ok", connect |-> {}, execute |-> {}]]

Init ==
    /\ clock = Clock0
    /\ \E st \in InitStores :
         /\ master = st.master
         /\ rows = st.rows
         /\ autoinc = st.autoinc
    /\ pc = "idle"
    /\ runs = 0
    /\ pages = 0
    /\ urls = <<>>
    /\ submitted = 0
    /\ fstate = <<>>
    /\ resp = <<>>
    /\ result = <<>>
    /\ issued = <<>>
    /\ order = <<>>
    /\ logged = {}
    /\ all_games_details = <<>>
    /\ games = <<>>
    /\ table_name_o = <<>>
    /\ created = FALSE
    /\ view = NoView

\* The system clock advances.  The clock is read only by
\* create_table_for_current_datetime, so the seconds that pass at any time
\* before that call are taken as ticks just before it.
Tick ==
    /\ pc = "create"
    /\ clock < Clock0 + MaxTicks
    /\ clock' = clock + 1
    /\ UNCHANGED <<storeVars, poolVars, runVars, view>>

\* ----------------------------------------------------------- the fetch pool
\* urls = [f"{base_url}&count={count_per_page}&page={page}"
\*         for page in range(1, max_pages + 1)]
UrlOf(base_url, count_per_page, page) ==
    base_url \o <<"&count=">> \o DecStr(count_per_page)
             \o <<"&page=">> \o DecStr(page)

\* Pages numbered from 0.
GenerateUrls_FromZero(base_url, count_per_page, max_pages) ==
    [page \in 1..max_pages |-> UrlOf(base_url, count_per_page, page - 1)]

GenerateUrls(base_url, count_per_page, max_pages) ==
    [page \in 1..max_pages |-> UrlOf(base_url, count_per_page, page)]

\* fetch_page without response.raise_for_status().
fetch_page_NoStatusCheck(r) ==
    IF r.error THEN None ELSE Text(r.body)

\* fetch_page(url), given what the network answers: requests.get raises on
\* a connection failure and raise_for_status on a 4xx/5xx status; both are
\* RequestException, caught, and None is returned.
fetch_page(r) ==
    IF r.error THEN None
    ELSE IF r.status >= 400 THEN None
    ELSE Text(r.body)

\* Number of futures a worker thread is running.
Running == Cardinality({i \in 1..Len(urls) : fstate[i] = "running"})

\* A call get_steam_games_parallel(base_url, count_per_page, max_pages)
\* begins: all_games_details = [] and the url list (db_create.py:140-141).
\* The module level makes the call when db_create is run or imported,
\* which is the start of a process: no query of that process has been made
\* yet.
CallPool(base_url, count_per_page, max_pages) ==
    /\ pc = "idle"
    /\ runs < MaxRuns
    /\ pages + max_pages <= MaxPages
    /\ runs' = runs + 1
    /\ pages' = pages + max_pages
    /\ urls' = GenerateUrls(base_url, count_per_page, max_pages)
    /\ submitted' = 0
    /\ fstate' = [i \in 1..max_pages |-> "unsubmitted"]
    /\ resp' = [i \in 1..max_pages |-> ConnError]
    /\ result' = [i \in 1..max_pages |-> None]
    /\ issued' = [i \in 1..max_pages |-> 0]
    /\ order' = <<>>
    /\ logged' = {}
    /\ all_games_details' = <<>>
    /\ pc' = "submit"
    /\ view' = NoView
    /\ UNCHANGED <<clock, storeVars, games, table_name_o, created>>

\* The module-level call (db_create.py:162), with max_pages scaled.
StartRun(max_pages) == CallPool(search_url, 100, max_pages)

\* One executor.submit(fetch_page, url) of the dict comprehension; after
\* the last one the caller enters the as_completed loop.
Submit ==
    /\ pc = "submit"
    /\ IF submitted < Len(urls)
       THEN /\ submitted' = submitted + 1
            /\ fstate' = [fstate EXCEPT ![submitted + 1] = "pending"]
            /\ pc' = pc
       ELSE /\ pc' = "collect"
            /\ UNCHANGED <<submitted, fstate>>
    /\ UNCHANGED <<clock, storeVars, urls, resp, result, issued, order, logged,
                   all_games_details, runs, pages, games, table_name_o,
                   created, view>>

\* A pool that starts a thread for every work item.
WorkerStart_NoCeiling(i) ==
    /\ pc \in {"submit", "collect"}
    /\ i \in 1..Len(urls)
    /\ fstate[i] = "pending"
    /\ \A j \in 1..(i - 1) : fstate[j] # "pending"
    /\ fstate' = [fstate EXCEPT ![i] = "running"]
    /\ issued' = [issued EXCEPT ![i] = @ + 1]
    /\ UNCHANGED <<clock, storeVars, runVars, urls, submitted, resp, result,
                   order, logged, all_games_details, view>>

\* A worker thread takes the oldest queued work item; at most max_workers
\* threads exist.
WorkerStart(i) ==
    /\ pc \in {"submit", "collect"}
    /\ i \in 1..Len(urls)
    /\ fstate[i] = "pending"
    /\ \A j \in 1..(i - 1) : fstate[j] # "pending"
    /\ Running < MaxWorkers
    /\ fstate' = [fstate EXCEPT ![i] = "running"]
    /\ issued' = [issued EXCEPT ![i] = @ + 1]
    /\ UNCHANGED <<clock, storeVars, runVars, urls, submitted, resp, result,
                   order, logged, all_games_details, view>>

\* The worker's fetch_page(url) returns and the future is finished.
WorkerFinish(i, r) ==
    /\ pc \in {"submit", "collect"}
    /\ i \in 1..Len(urls)
    /\ fstate[i] = "running"
    /\ fstate' = [fstate EXCEPT ![i] = "finished"]
    /\ resp' = [resp EXCEPT ![i] = r]
    /\ result' = [result EXCEPT ![i] = fetch_page(r)]
    /\ UNCHANGED <<clock, storeVars, runVars, urls, submitted, issued, order,
                   logged, all_games_details, view>>

\* The rows parsed before the row that raises.
RECURSIVE RowsBeforeRaise(_)
RowsBeforeRaise(rs) ==
    IF Len(rs) = 0 THEN <<>>
    ELSE LET r == ParseRow(rs[1]) IN
         IF r.raised THEN <<>>
         ELSE IF r.skipped THEN RowsBeforeRaise(Tail(rs))
         ELSE <<r.rec>> \o RowsBeforeRaise(Tail(rs))

\* The loop body with the records appended row by row, so that the rows
\* before a raising row stay in the list.
LoopBody_Partial(all, content) ==
    LET games_details == parse_page(content) IN
    IF games_details.raised
    THEN [all |-> all \o RowsBeforeRaise(content.rows), printed |-> TRUE]
    ELSE [all |-> all \o games_details.value, printed |-> FALSE]

\* The loop body with `=` where the code has extend.
LoopBody_Overwrite(all, content) ==
    LET games_details == parse_page(content) IN
    IF games_details.raised
    THEN [all |-> all, printed |-> TRUE]
    ELSE [all |-> games_details.value, printed |-> FALSE]

\* Body of the as_completed loop for one future (db_create.py:147-153):
\* the new all_games_details, and whether the except branch printed.
LoopBody(all, content) ==
    LET games_details == parse_page(content) IN
    IF games_details.raised
    THEN [all |-> all, printed |-> TRUE]
    ELSE [all |-> all \o games_details.value, printed |-> FALSE]

\* as_completed yields a finished future that it has not yielded yet, and
\* the loop body runs for it.
Collect(i) ==
    /\ pc = "collect"
    /\ i \in 1..Len(urls)
    /\ fstate[i] = "finished"
    /\ i \notin Range(order)
    /\ LET b == LoopBody(all_games_details, result[i]) IN
         /\ all_games_details' = b.all
         /\ logged' = IF b.printed THEN logged \cup {i} ELSE logged
    /\ order' = Append(order, i)
    /\ UNCHANGED <<clock, storeVars, runVars, urls, submitted, fstate, resp,
                   result, issued, view>>

\* A return that waits for no future.
PoolCanReturn_NoWait == pc = "collect"

\* as_completed is exhausted, the with block shuts the executor down
\* (waiting for its workers) and the function returns all_games_details.
PoolCanReturn ==
    /\ pc = "collect"
    /\ Len(order) = Len(urls)
    /\ Running = 0

PoolReturn ==
    /\ PoolCanReturn
    /\ games' = all_games_details
    /\ pc' = "create"
    /\ urls' = <<>>
    /\ submitted' = 0
    /\ fstate' = <<>>
    /\ resp' = <<>>
    /\ result' = <<>>
    /\ issued' = <<>>
    /\ order' = <<>>
    /\ logged' = {}
    /\ all_games_details' = <<>>
    /\ UNCHANGED <<clock, storeVars, runs, pages, table_name_o, created, view>>

\* ----------------------------------------------------------- snapshot writer
TableNames == Range(master)

\* DROP TABLE IF EXISTS followed by CREATE TABLE.
CreateTableIfNotExists_Replace(st, name) ==
    IF name \in Range(st.master)
    THEN Store(st.master, [st.rows EXCEPT ![name] = <<>>], st.autoinc)
    ELSE Store(st.master \o <<name>>
                 \o (IF SqliteSequence \in Range(st.master) THEN <<>>
                     ELSE <<SqliteSequence>>),
               (name :> <<>>) @@ st.rows,
               st.autoinc)

\* CREATE TABLE IF NOT EXISTS "<name>" (id INTEGER PRIMARY KEY AUTOINCREMENT, ...):
\* the store after the statement.  The first AUTOINCREMENT table also
\* brings sqlite_sequence into sqlite_master.
CreateTableIfNotExists(st, name) ==
    IF name \in Range(st.master) THEN st
    ELSE Store(st.master \o <<name>>
                 \o (IF SqliteSequence \in Range(st.master) THEN <<>>
                     ELSE <<SqliteSequence>>),
               (name :> <<>>) @@ st.rows,
               st.autoinc)

\* The table named after the instant the process started.
create_table_StartInstant ==
    /\ pc = "create"
    /\ LET table_name == strftime(DateTimeOf(Clock0))
           st == CreateTableIfNotExists(Store(master, rows, autoinc), table_name)
       IN /\ master' = st.master
          /\ rows' = st.rows
          /\ autoinc' = st.autoinc
          /\ table_name_o' = table_name
          /\ created' = (table_name \notin TableNames)
    /\ pc' = "insert"
    /\ UNCHANGED <<clock, poolVars, runs, pages, games, view>>

\* create_table_for_current_datetime(): the name is taken from the clock
\* at the call.
create_table_for_current_datetime ==
    /\ pc = "create"
    /\ LET table_name == strftime(DateTimeOf(clock))
           st == CreateTableIfNotExists(Store(master, rows, autoinc), table_name)
       IN /\ master' = st.master
          /\ rows' = st.rows
          /\ autoinc' = st.autoinc
          /\ table_name_o' = table_name
          /\ created' = (table_name \notin TableNames)
    /\ pc' = "insert"
    /\ UNCHANGED <<clock, poolVars, runs, pages, games, view>>

MaxId(rs) == IF Len(rs) = 0 THEN 0
             ELSE CHOOSE m \in {rs[i].id : i \in 1..Len(rs)} :
                        \A i \in 1..Len(rs) : rs[i].id <= m

Max2(a, b) == IF a >= b THEN a ELSE b

\* Ids that leave a gap.
NextId_Gap(rs, seq) == Max2(MaxId(rs), seq) + 2

\* The id AUTOINCREMENT gives the next row: one more than the largest id
\* the table ever held.
NextId(rs, seq) == Max2(MaxId(rs), seq) + 1

\* The rows of the run replace the rows of the table.
InsertAll_Replace(rs, seq, gs) ==
    [rows |-> [i \in 1..Len(gs) |-> StoredRow(i, gs[i])], seq |-> Len(gs)]

\* The INSERT statements of the loop, one per game, in order.
RECURSIVE InsertAll(_, _, _)
InsertAll(rs, seq, gs) ==
    IF Len(gs) = 0 THEN [rows |-> rs, seq |-> seq]
    ELSE LET id == NextId(rs, seq) IN
         InsertAll(Append(rs, StoredRow(id, gs[1])), id, Tail(gs))

SeqOf(a, t) == IF t \in DOMAIN a THEN a[t] ELSE 0

\* insert_data_into_table(table_name_o, games): the inserts become
\* visible together at conn.commit().
insert_data_into_table ==
    /\ pc = "insert"
    /\ LET ins == InsertAll(rows[table_name_o], SeqOf(autoinc, table_name_o), games)
       IN /\ rows' = [rows EXCEPT ![table_name_o] = ins.rows]
          /\ autoinc' = IF Len(games) = 0 THEN autoinc
                        ELSE (table_name_o :> ins.seq) @@ autoinc
    /\ pc' = "idle"
    /\ UNCHANGED <<clock, master, poolVars, runs, pages, games, table_name_o,
                   created, view>>

\* create_table_for_current_datetime() where the storage layer fails:
\* sqlite3.connect, cursor.execute or conn.commit raises sqlite3.Error,
\* nothing catches it, and the module level ends there (line 165) with
\* no table created.
create_table_raises ==
    /\ pc = "create"
    /\ pc' = "create_failed"
    /\ UNCHANGED <<clock, storeVars, poolVars, runs, pages, games, table_name_o,
                   created, view>>

\* Every INSERT committed as it is executed.
InsertFailed_Autocommit(rs, seq, gs, k) == InsertAll(rs, seq, SubSeq(gs, 1, k))

\* The table after insert_data_into_table raised with k INSERTs executed
\* (k = Len(gs): conn.commit() raised).  The INSERTs ran in the implicit
\* transaction of the connection, which is dropped without commit: the
\* transaction is rolled back.
InsertFailed(rs, seq, gs, k) == [rows |-> rs, seq |-> seq]

\* insert_data_into_table(table_name_o, games) where the storage layer
\* fails after k INSERTs: the sqlite3.Error leaves the function and ends
\* the module level (line 168).
insert_data_raises(k) ==
    /\ pc = "insert"
    /\ k \in 0..Len(games)
    /\ LET ins == InsertFailed(rows[table_name_o], SeqOf(autoinc, table_name_o), games, k)
       IN /\ rows' = [rows EXCEPT ![table_name_o] = ins.rows]
          /\ autoinc' = IF ins.seq = SeqOf(autoinc, table_name_o) THEN autoinc
                        ELSE (table_name_o :> ins.seq) @@ autoinc
    /\ pc' = "insert_failed"
    /\ UNCHANGED <<clock, master, poolVars, runs, pages, games, table_name_o,
                   created, view>>

\* ------------------------------------------------------------------- queries
\* What the storage layer does to one query.  db is the fate of a call that
\* opens one connection and runs one statement: "ok", "connect" where
\* sqlite3.connect raises, "execute" where cursor.execute raises.  connect
\* and execute are the tables for which the per-table connection or SELECT
\* of fetch_price_history raises.  All of them raise sqlite3.Error.
Fault(db, connect, execute) == [db |-> db, connect |-> connect, execute |-> execute]

NoFault == Fault("ok", {}, {})

\* A function's outcome: the value returned, or raised = TRUE where an
\* exception leaves the function.
Returned(v) == [raised |-> FALSE, value |-> v]
Raised == [raised |-> TRUE, value |-> <<>>]

\* fetch_table_names(): SELECT name FROM sqlite_master WHERE type='table'.
\* An sqlite3.Error is caught and tables = []; where connect raised, conn
\* is unbound and conn.close() in the finally block raises
\* UnboundLocalError.
fetch_table_names(m, db) ==
    CASE db = "ok" -> Returned(m)
      [] db = "execute" -> Returned(<<>>)
      [] db = "connect" -> Raised

\* [x for x in s if keep(x)]
RECURSIVE Exclude(_, _)
Exclude(s, bad) ==
    IF Len(s) = 0 THEN <<>>
    ELSE IF s[1] \in bad THEN Exclude(Tail(s), bad)
    ELSE <<s[1]>> \o Exclude(Tail(s), bad)

\* The loop with break where the code has continue.
RECURSIVE LatestLoop_Break(_, _)
LatestLoop_Break(tables, latest) ==
    IF Len(tables) = 0 THEN latest
    ELSE LET table_date == strptime(tables[1]) IN
         IF ~table_date[1] THEN latest
         ELSE IF ~latest[1] \/ DateLess(latest[2], table_date[2])
              THEN LatestLoop_Break(Tail(tables), <<TRUE, table_date[2], tables[1]>>)
              ELSE LatestLoop_Break(Tail(tables), latest)

\* The loop of get_latest_table over the tables still to visit, with
\* latest = <<found, latest_date, latest_table>>.
RECURSIVE LatestLoop(_, _)
LatestLoop(tables, latest) ==
    IF Len(tables) = 0 THEN latest
    ELSE LET table_date == strptime(tables[1]) IN
         IF ~table_date[1] THEN LatestLoop(Tail(tables), latest)
         ELSE IF ~latest[1] \/ DateLess(latest[2], table_date[2])
              THEN LatestLoop(Tail(tables), <<TRUE, table_date[2], tables[1]>>)
              ELSE LatestLoop(Tail(tables), latest)

NoTable == [found |-> FALSE, table |-> <<>>]

\* get_latest_table()
get_latest_table(m, db) ==
    LET tables == fetch_table_names(m, db) IN
    IF tables.raised THEN Raised
    ELSE LET price_history_tables == Exclude(tables.value, {SqliteSequence})
             l == LatestLoop(price_history_tables, <<FALSE, <<>>, <<>>>>)
         IN Returned(IF l[1] THEN [found |-> TRUE, table |-> l[3]] ELSE NoTable)

\* fetch_data_from_db(table_name): SELECT name, price, currency, url.  An
\* sqlite3.Error (also that of a table without these columns, or of no
\* such table) is caught and data = []; conn.close() raises where connect
\* raised.
fetch_data_from_db(rws, table_name, db) ==
    CASE db = "connect" -> Raised
      [] db = "execute" -> Returned(<<>>)
      [] db = "ok" ->
           IF table_name \notin DOMAIN rws THEN Returned(<<>>)
           ELSE LET rs == rws[table_name] IN
                Returned([i \in 1..Len(rs) |->
                            <<rs[i].name, rs[i].price, rs[i].currency, rs[i].url>>])

\* The rows on_table_select puts into the tree: numbered from 1.
TreeRows(data) == [i \in 1..Len(data) |-> <<i>> \o data[i]]

\* The first matching row only.
RECURSIVE SelectByName_First(_, _)
SelectByName_First(rs, game_name) ==
    IF Len(rs) = 0 THEN <<>>
    ELSE IF rs[1].name = game_name THEN <<rs[1].price>>
         ELSE SelectByName_First(Tail(rs), game_name)

\* SELECT name, price FROM "<table>" WHERE name=?
RECURSIVE SelectByName(_, _)
SelectByName(rs, game_name) ==
    IF Len(rs) = 0 THEN <<>>
    ELSE IF rs[1].name = game_name
         THEN <<rs[1].price>> \o SelectByName(Tail(rs), game_name)
         ELSE SelectByName(Tail(rs), game_name)

\* The loop with the SELECT's sqlite3.Error ending it.
RECURSIVE HistoryLoop_Abort(_, _, _, _, _, _)
HistoryLoop_Abort(tables, rws, game_name, fault, points, bound) ==
    IF Len(tables) = 0 THEN Returned(points)
    ELSE LET table_name == tables[1]
             table_date == strptime(table_name) IN
         IF ~table_date[1]
         THEN HistoryLoop_Abort(Tail(tables), rws, game_name, fault, points, bound)
         ELSE IF table_name \in fault.connect
         THEN IF bound
              THEN HistoryLoop_Abort(Tail(tables), rws, game_name, fault, points, bound)
              ELSE Raised
         ELSE IF table_name \in fault.execute \/ table_name \notin DOMAIN rws
         THEN Returned(points)
         ELSE LET prices == SelectByName(rws[table_name], game_name) IN
              HistoryLoop_Abort(Tail(tables), rws, game_name, fault,
                                points \o [i \in 1..Len(prices) |-> <<table_date[2], prices[i]>>],
                                TRUE)

\* The loop of fetch_price_history over the tables still to visit, given
\* the <<date, price>> pairs of all_dates / all_prices collected so far and
\* whether conn is bound (an earlier iteration's connect returned).  A
\* name that does not parse is skipped before anything is opened.  An
\* sqlite3.Error of connect or of the SELECT is caught and the loop goes
\* on; conn.close() in the finally block raises UnboundLocalError where
\* conn is not bound yet, and that leaves the function.
RECURSIVE HistoryLoop(_, _, _, _, _, _)
HistoryLoop(tables, rws, game_name, fault, points, bound) ==
    IF Len(tables) = 0 THEN Returned(points)
    ELSE LET table_name == tables[1]
             table_date == strptime(table_name) IN
         IF ~table_date[1]
         THEN HistoryLoop(Tail(tables), rws, game_name, fault, points, bound)
         ELSE IF table_name \in fault.connect
         THEN IF bound
              THEN HistoryLoop(Tail(tables), rws, game_name, fault, points, bound)
              ELSE Raised
         ELSE IF table_name \in fault.execute \/ table_name \notin DOMAIN rws
         THEN HistoryLoop(Tail(tables), rws, game_name, fault, points, TRUE)
         ELSE LET prices == SelectByName(rws[table_name], game_name) IN
              HistoryLoop(Tail(tables), rws, game_name, fault,
                          points \o [i \in 1..Len(prices) |-> <<table_date[2], prices[i]>>],
                          TRUE)

\* fetch_price_history(game_name)
fetch_price_history(m, rws, game_name, fault) ==
    LET tables == fetch_table_names(m, fault.db) IN
    IF tables.raised THEN Raised
    ELSE HistoryLoop(Exclude(tables.value, {SqliteSequence}), rws, game_name,
                     fault, <<>>, FALSE)

\* The store is read as it stands after the capture run's last commit.
\* While the pool is fetching the run does not touch the store, so a query
\* made then returns what it returns just before the run; queries are taken
\* at the points where the store can differ.
QueryPoint == pc \in {"idle", "insert", "create_failed", "insert_failed"}

\* A query and its outcome, as the caller sees it.
View(op, arg, out, fault) ==
    [op |-> op, arg |-> arg, ret |-> out.value, raised |-> out.raised, fault |-> fault]

\* The queries while the storage layer works.
ListTables ==
    /\ QueryPoint
    /\ view' = View("list", <<>>, fetch_table_names(master, "ok"), NoFault)
    /\ UNCHANGED <<clock, storeVars, poolVars, runVars>>

LatestTable ==
    /\ QueryPoint
    /\ view' = View("latest", <<>>, get_latest_table(master, "ok"), NoFault)
    /\ UNCHANGED <<clock, storeVars, poolVars, runVars>>

ReadTable(t) ==
    /\ QueryPoint
    /\ t \in DOMAIN rows
    /\ view' = View("read", t, fetch_data_from_db(rows, t, "ok"), NoFault)
    /\ UNCHANGED <<clock, storeVars, poolVars, runVars>>

History(game_name) ==
    /\ QueryPoint
    /\ view' = View("history", game_name,
                    fetch_price_history(master, rows, game_name, NoFault), NoFault)
    /\ UNCHANGED <<clock, storeVars, poolVars, runVars>>

Next ==
    \/ Tick
    \/ \E max_pages \in 0..MaxPages : StartRun(max_pages)
    \/ Submit
    \/ \E i \in 1..MaxPages : WorkerStart(i)
    \/ \E i \in 1..MaxPages, r \in Responses : WorkerFinish(i, r)
    \/ \E i \in 1..MaxPages : Collect(i)
    \/ PoolReturn
    \/ create_table_for_current_datetime
    \/ insert_data_into_table
    \/ ListTables
    \/ LatestTable
    \/ \E t \in TableNames : ReadTable(t)
    \/ \E n \in {X, Y} : History(n)

Spec == Init /\ [][Next]_vars

\* The queries alone, applied to every store of at most MaxTables tables
\* with names from CatalogNames, in every enumeration order.
CatalogNames == {NotADate, SqliteSequence, TEarly, TLate, TShort}

RowChoices == { <<>>,
                <<StoredRow(1, Game(X, P500))>>,
                <<StoredRow(1, Game(X, P600)), StoredRow(2, Game(Y, P500)),
                  StoredRow(3, Game(X, P500))>> }

InitCatalog ==
    /\ clock = Clock0
    /\ master \in {m \in UNION {[1..n -> CatalogNames] : n \in 0..MaxTables} :
                     \A i, j \in 1..Len(m) : i # j => m[i] # m[j]}
    /\ rows \in [Range(master) \ {SqliteSequence} -> RowChoices]
    /\ autoinc = [t \in {u \in DOMAIN rows : Len(rows[u]) > 0} |-> MaxId(rows[t])]
    /\ pc = "idle"
    /\ runs = 0
    /\ pages = 0
    /\ urls = <<>>
    /\ submitted = 0
    /\ fstate = <<>>
    /\ resp = <<>>
    /\ result = <<>>
    /\ issued = <<>>
    /\ order = <<>>
    /\ logged = {}
    /\ all_games_details = <<>>
    /\ games = <<>>
    /\ table_name_o = <<>>
    /\ created = FALSE
    /\ view = NoView

QueryNext ==
    \/ ListTables
    \/ LatestTable
    \/ \E t \in TableNames : ReadTable(t)
    \/ \E n \in {X, Y} : History(n)

CatalogSpec == InitCatalog /\ [][QueryNext]_vars

\* One call of get_steam_games_parallel alone, with the scheduling the
\* pool relies on: the caller's thread keeps running, a free worker thread
\* takes queued work, and a fetch that was started returns.
PoolNext ==
    \/ \E max_pages \in 0..MaxPages : StartRun(max_pages)
    \/ Submit
    \/ \E i \in 1..MaxPages : WorkerStart(i)
    \/ \E i \in 1..MaxPages, r \in Responses : WorkerFinish(i, r)
    \/ \E i \in 1..MaxPages : Collect(i)
    \/ PoolReturn

\* The as_completed loop takes one more finished future: the steps of
\* Collect, seen on order alone.
CollectTaken ==
    /\ pc = "collect"
    /\ \E i \in 1..MaxPages :
         /\ i \in 1..Len(urls)
         /\ fstate[i] = "finished"
         /\ i \notin Range(order)
         /\ order' = Append(order, i)

FairSpec ==
    /\ Init
    /\ [][PoolNext]_vars
    /\ WF_vars(Submit)
    /\ WF_vars(\E i \in 1..MaxPages : WorkerStart(i))
    /\ WF_vars(\E i \in 1..MaxPages, r \in Responses : WorkerFinish(i, r))
    /\ WF_order(CollectTaken)
    /\ WF_vars(PoolReturn)

\* The capture run's writes and the queries, with the storage layer
\* failing or not in each of them.  A behaviour starts where
\* get_steam_games_parallel has returned the records of two pages.
ReturnedGames ==
    { <<>>,
      parse_page(Text(DocTwo)).value,
      parse_page(Text(DocTwo)).value \o parse_page(Text(DocBlank)).value }

InitWriter ==
    /\ clock = Clock0
    /\ \E st \in InitStores :
         /\ master = st.master
         /\ rows = st.rows
         /\ autoinc = st.autoinc
    /\ pc = "create"
    /\ runs = 1
    /\ pages = 2
    /\ urls = <<>>
    /\ submitted = 0
    /\ fstate = <<>>
    /\ resp = <<>>
    /\ result = <<>>
    /\ issued = <<>>
    /\ order = <<>>
    /\ logged = {}
    /\ all_games_details = <<>>
    /\ games \in ReturnedGames
    /\ table_name_o = <<>>
    /\ created = FALSE
    /\ view = NoView

DbFates == {"ok", "connect", "execute"}

\* The fates of the per-table reads of one fetch_price_history call: at
\* most one table whose connection fails and one whose SELECT fails.
AtMostOne(S) == {{}} \cup {{t} : t \in S}

TableFaults ==
    {Fault("ok", c, e) : c \in AtMostOne(DOMAIN rows), e \in AtMostOne(DOMAIN rows)}

HistoryFaults ==
    {f \in TableFaults : f.connect \cap f.execute = {}}
      \cup {Fault(db, {}, {}) : db \in DbFates \ {"ok"}}

ListTablesUnder(db) ==
    /\ QueryPoint
    /\ view' = View("list", <<>>, fetch_table_names(master, db), Fault(db, {}, {}))
    /\ UNCHANGED <<clock, storeVars, poolVars, runVars>>

LatestTableUnder(db) ==
    /\ QueryPoint
    /\ view' = View("latest", <<>>, get_latest_table(master, db), Fault(db, {}, {}))
    /\ UNCHANGED <<clock, storeVars, poolVars, runVars>>

ReadTableUnder(t, db) ==
    /\ QueryPoint
    /\ view' = View("read", t, fetch_data_from_db(rows, t, db), Fault(db, {}, {}))
    /\ UNCHANGED <<clock, storeVars, poolVars, runVars>>

HistoryUnder(game_name, fault) ==
    /\ QueryPoint
    /\ view' = View("history", game_name,
                    fetch_price_history(master, rows, game_name, fault), fault)
    /\ UNCHANGED <<clock, storeVars, poolVars, runVars>>

StorageNext ==
    \/ Tick
    \/ create_table_for_current_datetime
    \/ create_table_raises
    \/ insert_data_into_table
    \/ \E k \in 0..Len(games) : insert_data_raises(k)
    \/ \E db \in DbFates : ListTablesUnder(db)
    \/ \E db \in DbFates : LatestTableUnder(db)
    \/ \E t \in TableNames, db \in DbFates : ReadTableUnder(t, db)
    \/ \E n \in {X, Y}, fault \in HistoryFaults : HistoryUnder(n, fault)

StorageSpec == InitWriter /\ [][StorageNext]_vars

\* parse_page alone, applied by the as_completed loop to the result of one
\* fetch: every document of at most MaxRows result rows built from the
\* titles, href attributes and price fragments below, or no document.
RowTitles == {Absent, Node(X), Node(<<" ", "Y", " ">>), Node(<<" ">>)}
RowHrefs == {Absent, Node(Href1)}
RowPrices == {Absent, Node(<<"1", "9", ",", "9", "9", "€">>), Node(<<"F", "r", "e", "e">>),
              Node(<<" ", "6", ",", "0", "0", " ", "€", " ">>), Node(<<"$", "5">>)}

ResultRows == {Row(t, h, p) : t \in RowTitles, h \in RowHrefs, p \in RowPrices}

Documents == UNION {[1..n -> ResultRows] : n \in 0..MaxRows}

InitParse ==
    /\ clock = Clock0
    /\ master = <<>>
    /\ rows = <<>>
    /\ autoinc = <<>>
    /\ pc = "collect"
    /\ runs = 1
    /\ pages = 1
    /\ urls = GenerateUrls(search_url, 100, 1)
    /\ submitted = 1
    /\ fstate = <<"finished">>
    /\ resp \in {<<ConnError>>} \cup {<<Http(200, d)>> : d \in Documents}
    /\ result = <<fetch_page(resp[1])>>
    /\ issued = <<1>>
    /\ order = <<>>
    /\ logged = {}
    /\ all_games_details = <<>>
    /\ games = <<>>
    /\ table_name_o = <<>>
    /\ created = FALSE
    /\ view = NoView

ParseNext ==
    \/ Collect(1)
    \/ PoolReturn

ParseSpec == InitParse /\ [][ParseNext]_vars

\* The URL list alone: get_steam_games_parallel called with any of these
\* base queries and page sizes, and the submits that follow.
BaseUrls == {search_url, <<"q", "?", "a", "=", "1">>}
PageSizes == {1, 9, 10, 100}

UrlNext ==
    \/ \E base_url \in BaseUrls, count_per_page \in PageSizes, max_pages \in 0..MaxPages :
         CallPool(base_url, count_per_page, max_pages)
    \/ Submit

UrlSpec == Init /\ [][UrlNext]_vars

\* The viewer started as the main program (visualize_database.py:278-367).
\* `import db_create` at the top of the file has run db_create's module
\* level, the capture run, before the main block begins.
\*
\* The names db_create's module namespace holds after the import.
ModuleAttrs == {"requests", "BeautifulSoup", "re", "sqlite3", "ThreadPoolExecutor",
                "as_completed", "datetime", "get_db_connection",
                "create_table_for_current_datetime", "insert_data_into_table",
                "fetch_page", "parse_page", "get_steam_games_parallel",
                "search_url", "games", "table_name_o"}

\* The main block: print('Updating DB...'), db_create.update_db(), and,
\* where that call returns, the GUI initialisation, which ends with the
\* latest table selected (lines 360-364).  The attribute lookup raises
\* AttributeError where the module has no such name, and the program ends.
viewer_main ==
    /\ pc = "idle"
    /\ runs >= 1
    /\ IF "update_db" \in ModuleAttrs
       THEN /\ pc' = "gui"
            /\ view' = View("latest", <<>>, get_latest_table(master, "ok"), NoFault)
       ELSE /\ pc' = "crashed"
            /\ view' = view
    /\ UNCHANGED <<clock, storeVars, poolVars, runs, pages, games, table_name_o,
                   created>>

ViewerNext ==
    \/ \E max_pages \in 0..MaxPages : StartRun(max_pages)
    \/ Submit
    \/ \E i \in 1..MaxPages : WorkerStart(i)
    \/ \E i \in 1..MaxPages, r \in Responses : WorkerFinish(i, r)
    \/ \E i \in 1..MaxPages : Collect(i)
    \/ PoolReturn
    \/ Tick
    \/ create_table_for_current_datetime
    \/ insert_data_into_table
    \/ viewer_main

\* The program's threads keep running: the fairness of FairSpec, and the
\* main thread goes on from one statement of the module level to the next.
ViewerSpec ==
    /\ Init
    /\ [][ViewerNext]_vars
    /\ WF_vars(Submit)
    /\ WF_vars(\E i \in 1..MaxPages : WorkerStart(i))
    /\ WF_vars(\E i \in 1..MaxPages, r \in Responses : WorkerFinish(i, r))
    /\ WF_order(CollectTaken)
    /\ WF_vars(PoolReturn)
    /\ WF_pc(pc = "create" /\ pc' = "insert")
    /\ WF_pc(pc = "insert" /\ pc' = "idle")
    /\ WF_vars(viewer_main)

\* =================================================================== claims
\* The step in which get_steam_games_parallel returns to the module level.
PoolReturns == pc = "collect" /\ pc' = "create"

Indices == 1..Len(urls)

NoDuplicates(s) == \A i, j \in 1..Len(s) : i # j => s[i] # s[j]

\* requests.get or raise_for_status raises a RequestException.
FetchFails(r) == r.error \/ r.status \in 400..599

FailedUrls == {i \in Indices : FetchFails(resp[i])}

\* C1: when get_steam_games_parallel returns, the loop has processed
\* exactly one outcome per submitted URL, every URL was requested exactly
\* once, the outcomes that are None are exactly those of the URLs whose
\* fetch failed, and every other outcome is the fetched document.
C1_Outcomes ==
    [][PoolReturns =>
         /\ Len(order) = Len(urls)
         /\ NoDuplicates(order)
         /\ Range(order) = Indices
         /\ \A i \in Indices : issued[i] = 1
         /\ {i \in Indices : result[i].isNone} = FailedUrls
         /\ Cardinality({i \in Indices : ~result[i].isNone})
              = Len(urls) - Cardinality(FailedUrls)
         /\ \A i \in Indices \ FailedUrls : result[i] = Text(resp[i].body)]_vars

\* C1 witness: three URLs, all processed, of which some but not all failed.
C1_Witness ==
    /\ pc = "collect"
    /\ Len(urls) = 3
    /\ Len(order) = 3
    /\ FailedUrls # {}
    /\ FailedUrls # Indices

\* Concatenation of f[i] for the i of the sequence ord, in that order.
RECURSIVE ConcatOver(_, _)
ConcatOver(ord, f) ==
    IF Len(ord) = 0 THEN <<>> ELSE f[ord[1]] \o ConcatOver(Tail(ord), f)

\* URLs whose fetch raised inside fetch_page or whose result made
\* parse_page raise.
ParseRaises == {i \in Indices : parse_page(result[i]).raised}

ErrorUrls == FailedUrls \cup ParseRaises

\* What URL i contributes when it is processed on its own.
Alone(i) == IF i \in ErrorUrls THEN <<>> ELSE parse_page(Text(resp[i].body)).value

\* C2: an exception while fetching or processing one URL is caught: when
\* the pool returns every URL has been processed, the URLs whose processing
\* raised are exactly the logged ones, a URL with an error contributes no
\* record, and every other URL contributes what it contributes alone.
C2_Isolation ==
    [][PoolReturns =>
         /\ Range(order) = Indices
         /\ logged = ParseRaises
         /\ games' = ConcatOver(order, [i \in Indices |-> Alone(i)])]_vars

\* C2 witness: a URL whose processing raised was processed before a URL
\* that contributed records, and all three URLs have been processed.
C2_Witness ==
    /\ pc = "collect"
    /\ Len(order) = 3
    /\ Len(urls) = 3
    /\ order[1] \in ParseRaises
    /\ order[2] \in FailedUrls
    /\ Alone(order[3]) # <<>>

\* C3: get_steam_games_parallel returns only when every URL has been
\* submitted and every future is finished (none pending, none running);
\* and, every fetch completing, a call that has begun does return.
C3_Barrier ==
    /\ [][PoolReturns =>
            /\ submitted = Len(urls)
            /\ \A i \in Indices : fstate[i] = "finished"]_vars
    /\ (pc \in {"submit", "collect"}) ~> (pc = "create")

\* C3 witness: the call has returned from a pool of three URLs.
C3_Witness ==
    /\ pc = "create"
    /\ pages = 3
    /\ runs = 1
    /\ Len(games) > 0

InFlight == Cardinality({i \in Indices : fstate[i] = "running"})

RECURSIVE SumOver(_, _)
SumOver(f, n) == IF n = 0 THEN 0 ELSE f[n] + SumOver(f, n - 1)

\* C4: never more fetches in flight than the worker ceiling; and when all
\* URLs have been processed the fetches issued number exactly the URLs,
\* also when there are more URLs than workers.
C4_Ceiling ==
    /\ InFlight <= MaxWorkers
    /\ SumOver(issued, Len(urls)) <= Len(urls)
    /\ (pc = "collect" /\ Len(order) = Len(urls))
         => SumOver(issued, Len(urls)) = Len(urls)

\* C4 witness: more URLs than workers, the ceiling reached with a URL
\* still waiting in the queue.
C4_Witness ==
    /\ Len(urls) > MaxWorkers
    /\ InFlight = MaxWorkers
    /\ \E i \in Indices : fstate[i] = "pending"

\* The records each document of Docs holds, row by row (none where
\* parsing the document raises).
Rec(n, p, c, u) == [name |-> n, price |-> p, currency |-> c, url |-> u]

ExpectedRecords(body) ==
    CASE body = DocTwo -> <<Rec(X, <<"1", "9", ",", "9", "9">>, <<"€">>, Href1),
                            Rec(Y, <<"0", ",", "-", "-">>, <<"€">>, Href2)>>
      [] body = DocSkip -> <<Rec(X, <<"0", ",", "-", "-">>, <<"€">>, Href1)>>
      [] body = DocNoHref -> <<>>
      [] body = DocBlank -> <<Rec(<<>>, <<"0", ",", "-", "-">>, <<"€">>, Href1)>>

PageRecords(i) == IF i \in FailedUrls THEN <<>> ELSE ExpectedRecords(resp[i].body)

BagOfSeq(s) == [x \in Range(s) |-> Cardinality({i \in 1..Len(s) : s[i] = x})]

RECURSIVE BagSum(_, _)
BagSum(f, n) == IF n = 0 THEN EmptyBag ELSE BagOfSeq(f[n]) (+) BagSum(f, n - 1)

PageOrders == {o \in [Indices -> Indices] : \A i, j \in Indices : i # j => o[i] # o[j]}

\* C5: the list get_steam_games_parallel returns holds, as a multiset,
\* exactly the records of the successfully fetched pages, and is the
\* concatenation of the pages' record lists in some order of the pages.
C5_Merge ==
    [][PoolReturns =>
         /\ BagOfSeq(games') = BagSum([i \in Indices |-> PageRecords(i)], Len(urls))
         /\ \E o \in PageOrders :
              games' = ConcatOver(o, [i \in Indices |-> PageRecords(i)])]_vars

\* C5 witness: the later URL was processed first, both pages gave the same
\* document, and a third fetch failed.
C5_Witness ==
    /\ pc = "collect"
    /\ Len(order) = 3
    /\ order[1] = 3
    /\ order[2] = 1
    /\ 2 \in FailedUrls
    /\ ~resp[1].error /\ ~resp[3].error
    /\ resp[1] = Http(200, DocTwo)
    /\ resp[3] = Http(200, DocTwo)
    /\ Len(all_games_details) = 4

\* Snapshots whose writing run has completed: every table but the one the
\* current run has created and not yet filled.
ClosedTables == {t \in DOMAIN rows : ~(pc = "insert" /\ created /\ t = table_name_o)}

IsPrefix(a, b) == Len(a) <= Len(b) /\ \A i \in 1..Len(a) : a[i] = b[i]

\* C6 as stated: no step changes the records of a closed snapshot.
C6_Original ==
    [][\A t \in ClosedTables : t \in DOMAIN rows' /\ rows'[t] = rows[t]]_vars

\* C6 amended: no step updates or deletes a record of a closed snapshot;
\* a step adds records to one only as the bulk insert of a later capture
\* run whose name is that snapshot's (same UTC second), after the records
\* it holds; queries leave the store as it is and a full read returns the
\* records the snapshot holds.
C6_AppendOnly ==
    [][/\ \A t \in ClosedTables :
            /\ t \in DOMAIN rows'
            /\ IsPrefix(rows[t], rows'[t])
            /\ rows'[t] # rows[t]
                 => (pc = "insert" /\ pc' = "idle" /\ ~created /\ t = table_name_o)
       /\ view' # view => (master' = master /\ rows' = rows /\ autoinc' = autoinc)
       /\ (view' # view /\ view'.op = "read")
            => view'.ret = [i \in 1..Len(rows[view'.arg]) |->
                              <<rows[view'.arg][i].name, rows[view'.arg][i].price,
                                rows[view'.arg][i].currency, rows[view'.arg][i].url>>]]_vars

\* C6 witness: the capture run fell into the second of an earlier run,
\* and its records stand after the earlier run's in the same snapshot,
\* which has been read since.
C6_Witness ==
    /\ pc = "idle"
    /\ runs >= 1
    /\ ~created
    /\ Len(games) > 0
    /\ Len(rows[table_name_o]) > Len(games)
    /\ view.op = "read"
    /\ view.arg = table_name_o
    /\ Len(view.ret) = Len(rows[table_name_o])

\* The step create_table_for_current_datetime takes / insert_data_into_table takes.
CreateStep == pc = "create" /\ pc' = "insert"
InsertStep == pc = "insert" /\ pc' = "idle"

\* C7: a run whose name exists already leaves the store as it is when it
\* creates; its insert keeps every stored row with its id, and appends the
\* run's records in order with ids above every stored id and increasing.
C7_Collision ==
    [][/\ (CreateStep /\ table_name_o' \in TableNames)
            => (master' = master /\ rows' = rows /\ autoinc' = autoinc /\ ~created')
       /\ (InsertStep /\ ~created)
            => LET old == rows[table_name_o]
                   new == rows'[table_name_o]
               IN /\ IsPrefix(old, new)
                  /\ Len(new) = Len(old) + Len(games)
                  /\ \A k \in 1..Len(games) :
                       /\ new[Len(old) + k] = StoredRow(new[Len(old) + k].id, games[k])
                       /\ \A j \in 1..(Len(old) + k - 1) :
                            new[j].id < new[Len(old) + k].id
                  /\ \A t \in DOMAIN rows \ {table_name_o} : rows'[t] = rows[t]]_vars

\* C7 witness: two records appended to a snapshot that held records.
C7_Witness ==
    /\ pc = "idle"
    /\ runs >= 1
    /\ ~created
    /\ Len(games) = 2
    /\ Len(rows[table_name_o]) > 2
    /\ rows[table_name_o][Len(rows[table_name_o])].id = Len(rows[table_name_o])

\* C8: a full read of the snapshot the latest run created and filled
\* returns the run's records in the order written, and the stored ids,
\* like the numbers the viewer gives the rows, are 1..len(records).
C8_WriteRead ==
    [][(view' # view /\ view'.op = "read" /\ pc = "idle" /\ runs > 0
          /\ created /\ view'.arg = table_name_o)
         => /\ view'.ret = [i \in 1..Len(games) |->
                              <<games[i].name, games[i].price,
                                games[i].currency, games[i].url>>]
            /\ Len(rows[table_name_o]) = Len(games)
            /\ \A i \in 1..Len(games) :
                 /\ rows[table_name_o][i].id = i
                 /\ TreeRows(view'.ret)[i][1] = i]_vars

\* C8 witness: three records written to a new snapshot and read back.
C8_Witness ==
    /\ pc = "idle"
    /\ created
    /\ view.op = "read"
    /\ view.arg = table_name_o
    /\ Len(games) = 3
    /\ Len(view.ret) = 3

\* C9 as stated: as long as the run's unit has not been created, no page
\* has been fetched or parsed.
C9_Original ==
    pc \in {"submit", "collect", "create"}
      => /\ \A i \in DOMAIN issued : issued[i] = 0
         /\ all_games_details = <<>>
         /\ games = <<>>

\* C9 amended: the unit is created only after get_steam_games_parallel
\* has returned with every page fetched and parsed; it is named after the
\* UTC instant of that creation; records enter the store only in the one
\* insert step that follows, after which the run is over.
C9_Lifecycle ==
    [][/\ (pc' = "create" /\ pc # "create")
            => (pc = "collect" /\ Range(order) = Indices
                /\ games' = all_games_details)
       /\ (pc' = "insert" /\ pc # "insert")
            => /\ pc = "create"
               /\ table_name_o' = strftime(DateTimeOf(clock))
               /\ table_name_o' \in Range(master')
               /\ games' = games
               /\ \A t \in DOMAIN rows : rows'[t] = rows[t]
               /\ table_name_o' \notin DOMAIN rows => rows'[table_name_o'] = <<>>
       /\ (rows' # rows) => (CreateStep \/ InsertStep)
       /\ (pc = "insert" /\ pc' # "insert") => pc' = "idle"]_vars

\* C9 witness: the unit has just been created, empty, one second after
\* the run began, and the run's records are waiting to be inserted.
C9_Witness ==
    /\ pc = "insert"
    /\ created
    /\ clock > Clock0
    /\ table_name_o = strftime(DateTimeOf(clock))
    /\ Len(games) > 0
    /\ rows[table_name_o] = <<>>

\* Positions of sqlite_master whose name parses as a timestamp.
Parseable == {i \in 1..Len(master) :
                master[i] # SqliteSequence /\ strptime(master[i])[1]}

\* C10: get_latest_table returns none exactly when no table name parses;
\* otherwise it returns a name that parses and whose timestamp no parsing
\* name exceeds (the first such name in enumeration order), whatever names
\* that do not parse stand before or after it.
C10_Latest ==
    view.op = "latest"
      => IF Parseable = {} THEN view.ret = NoTable
         ELSE /\ view.ret.found
              /\ \E i \in Parseable :
                   /\ master[i] = view.ret.table
                   /\ \A j \in Parseable :
                        ~DateLess(strptime(master[i])[2], strptime(master[j])[2])
                   /\ \A j \in Parseable :
                        j < i => DateLess(strptime(master[j])[2], strptime(master[i])[2])

\* C10 witness: the latest table found although a name that does not
\* parse is enumerated first and an earlier snapshot last.
C10_Witness ==
    /\ view.op = "latest"
    /\ Len(master) = 3
    /\ master[1] = NotADate
    /\ master[2] = TLate
    /\ master[3] = TEarly
    /\ view.ret = [found |-> TRUE, table |-> TLate]

\* C11 as stated: list() returns exactly the names of the snapshot units
\* held in the store (every unit, also one whose name does not parse, and
\* no name that is not a snapshot unit).
C11_Original ==
    view.op = "list" => Range(view.ret) = DOMAIN rows

\* C12 as stated: the series history(name) returns is in ascending order
\* of snapshot timestamp, in whatever order the catalog enumerates the
\* snapshots.
C12_Original ==
    (view.op = "history" /\ ~view.raised)
      => \A i, j \in 1..Len(view.ret) :
           i < j => ~DateLess(view.ret[j][1], view.ret[i][1])

\* The records that match a history query: <<i, k>> is record k of the
\* table enumerated i-th, where the table's name parses and the record's
\* name is the query's.
MatchingRecords(game_name) ==
    UNION {{<<i, k>> : k \in {k \in 1..Len(rows[master[i]]) :
                                rows[master[i]][k].name = game_name}} :
           i \in Parseable}

PointOf(ik) == <<strptime(master[ik[1]])[2], rows[master[ik[1]]][ik[2]].price>>

\* C13: history(name) holds one point per record whose name equals the
\* query name in the snapshots whose name parses, pairing the snapshot's
\* parsed timestamp with the record's price: as many copies of a point as
\* records give it, and no point besides.
C13_Points ==
    (view.op = "history" /\ ~view.raised)
      => LET slots == MatchingRecords(view.arg) IN
         /\ Len(view.ret) = Cardinality(slots)
         /\ \A p \in Range(view.ret) \cup {PointOf(ik) : ik \in slots} :
              Cardinality({j \in 1..Len(view.ret) : view.ret[j] = p})
                = Cardinality({ik \in slots : PointOf(ik) = p})

\* C13 witness: a table whose name does not parse holds a matching record
\* and gives no point; the snapshot after it holds two matching records and
\* one other, and gives two points.
C13_Witness ==
    /\ view.op = "history"
    /\ view.arg = X
    /\ Len(master) = 2
    /\ master[1] = NotADate
    /\ Len(rows[NotADate]) = 1
    /\ master[2] = TLate
    /\ Len(rows[TLate]) = 3
    /\ view.ret = <<<<(<<2024, 1, 2, 0, 0, 0>>), P600>>, <<(<<2024, 1, 2, 0, 0, 0>>), P500>>>>

\* The matching records of the snapshots a history query could read.
ReadableRecords(game_name, unreadable) ==
    {ik \in MatchingRecords(game_name) : master[ik[1]] \notin unreadable}

C15_Original ==
    [][/\ (view' # view /\ view'.op \in {"list", "latest", "read"}
             /\ view'.fault.db # "ok")
            => (view'.raised /\ rows' = rows)
       /\ (pc' \in {"create_failed", "insert_failed"} /\ pc' # pc)
            => \A t \in DOMAIN rows : t # table_name_o => rows'[t] = rows[t]]_vars

\* C19: a bulk insert that fails leaves the store as it was before the
\* call, with the run's unit in the catalog; a unit the run created holds
\* none of the run's records or all of them, never a part; after the
\* failure latest(), with the storage layer working again, returns a
\* snapshot no older than the run's unit.
C19_AllOrNothing ==
    [][/\ (pc = "insert" /\ pc' = "insert_failed")
            => /\ master' = master /\ rows' = rows /\ autoinc' = autoinc
               /\ table_name_o \in Range(master')
               /\ created => rows'[table_name_o] = <<>>
       /\ (created /\ pc \in {"insert", "insert_failed", "idle"})
            => (rows[table_name_o] = <<>>
                \/ fetch_data_from_db(rows, table_name_o, "ok").value
                     = [i \in 1..Len(games) |-> <<games[i].name, games[i].price,
                                                   games[i].currency, games[i].url>>])
       /\ (pc = "insert_failed" /\ view' # view /\ view'.op = "latest"
             /\ view'.fault.db = "ok")
            => /\ view'.ret.found
               /\ ~DateLess(strptime(view'.ret.table)[2], strptime(table_name_o)[2])]_vars

\* C19 witness: the insert of three records failed, the unit the run
\* created is empty, and latest() has returned it.
C19_Witness ==
    /\ pc = "insert_failed"
    /\ created
    /\ Len(games) = 3
    /\ rows[table_name_o] = <<>>
    /\ view.op = "latest"
    /\ view.ret = [found |-> TRUE, table |-> table_name_o]

\* C16 as stated: in every state of the store every persisted record has
\* a non-empty name.
C16_Original ==
    \A t \in DOMAIN rows : \A i \in 1..Len(rows[t]) : rows[t][i].name # <<>>

\* What the claim expects of a price fragment of RowPrices.
ExpectedPrice(p) ==
    CASE p = Absent -> <<SentinelPrice, SentinelCurrency>>
      [] p = Node(<<"1", "9", ",", "9", "9", "€">>) -> <<<<"1", "9", ",", "9", "9">>, <<"€">>>>
      [] p = Node(<<"F", "r", "e", "e">>) -> <<SentinelPrice, SentinelCurrency>>
      [] p = Node(<<" ", "6", ",", "0", "0", " ", "€", " ">>) -> <<<<"6", ",", "0", "0">>, <<"€">>>>
      [] p = Node(<<"$", "5">>) -> <<SentinelPrice, SentinelCurrency>>

HasTitle(r) == r.title.present

\* C17 as stated: parse_page gives one record per result row that
\* contains a name, in document order, whatever the row's other fields;
\* the price fragment is split, or replaced by "0,--" and "€" where it is
\* absent or has not the shape; no document gives the empty list.
C17_Original ==
    [][(pc = "collect" /\ order = <<>> /\ order' = <<1>>)
         => LET named == IF result[1].isNone THEN <<>>
                         ELSE SelectSeq(result[1].rows, HasTitle)
            IN /\ 1 \notin logged'
               /\ Len(all_games_details') = Len(named)
               /\ \A i \in 1..Len(named) :
                    /\ all_games_details'[i].price = ExpectedPrice(named[i].price)[1]
                    /\ all_games_details'[i].currency = ExpectedPrice(named[i].price)[2]]_vars

\* A result row with a name and without a link.
Linkless(r) == r.title.present /\ ~r.href.present

\* C17 amended: where every result row that contains a name carries an
\* href attribute, parse_page gives one record per such row, in document
\* order, with the stripped title as name, and with the price fragment
\* split, or replaced by "0,--" and "€" where it is absent or has not the
\* shape; no document gives the empty list.  Where a row that contains a
\* name has no href attribute parse_page raises and the document gives no
\* record.
C17_Parse ==
    [][(pc = "collect" /\ order = <<>> /\ order' = <<1>>)
         => IF result[1].isNone
            THEN 1 \notin logged' /\ all_games_details' = <<>>
            ELSE IF \E k \in 1..Len(result[1].rows) : Linkless(result[1].rows[k])
            THEN 1 \in logged' /\ all_games_details' = <<>>
            ELSE LET named == SelectSeq(result[1].rows, HasTitle)
                 IN /\ 1 \notin logged'
                    /\ Len(all_games_details') = Len(named)
                    /\ \A i \in 1..Len(named) :
                         /\ all_games_details'[i].name = Strip(named[i].title.text)
                         /\ all_games_details'[i].url = named[i].href.text
                         /\ all_games_details'[i].price = ExpectedPrice(named[i].price)[1]
                         /\ all_games_details'[i].currency
                              = ExpectedPrice(named[i].price)[2]]_vars

\* C17 witness: a document of two named rows, the first without a price
\* fragment and the second with "19,99€", has given two records.
C17_Witness ==
    /\ pc = "collect"
    /\ order = <<1>>
    /\ ~resp[1].error
    /\ Len(resp[1].body) = 2
    /\ resp[1].body[1] = Row(Node(<<" ", "Y", " ">>), Node(Href1), Absent)
    /\ resp[1].body[2] = Row(Node(X), Node(Href1), Node(<<"1", "9", ",", "9", "9", "€">>))
    /\ all_games_details = <<Rec(Y, SentinelPrice, SentinelCurrency, Href1),
                             Rec(X, <<"1", "9", ",", "9", "9">>, <<"€">>, Href1)>>

\* Reading a URL back: the position of the last occurrence of a parameter
\* key, the digits that follow it, and the text before the count key.
KeyPos(url, key) ==
    CHOOSE i \in 0..Len(url) :
      /\ i > 0 => url[i] = key
      /\ \A j \in (i + 1)..Len(url) : url[j] # key
      /\ i = 0 => \A j \in 1..Len(url) : url[j] # key

RECURSIVE DigitRun(_, _)
DigitRun(url, p) ==
    IF p <= Len(url) /\ IsDigit(url[p]) THEN <<url[p]>> \o DigitRun(url, p + 1) ELSE <<>>

ParamOf(url, key) == DigitRun(url, KeyPos(url, key) + 1)

BaseOf(url) == Slice(url, 1, KeyPos(url, "&count=") - 1)

\* C18: the URL list of a call for N pages has N entries; entry i ends
\* with the page parameter i and holds, after the base query, the count
\* parameter with the call's page size; the base query and the page size
\* are the same in every entry.
C18_Urls ==
    [][(pc = "idle" /\ pc' = "submit")
         => LET N == pages' - pages IN
            /\ Len(urls') = N
            /\ \A i \in 1..N :
                 LET url == urls'[i]
                     cpos == KeyPos(url, "&count=")
                     ppos == KeyPos(url, "&page=")
                 IN /\ 0 < cpos /\ cpos < ppos
                    /\ ParamOf(url, "&page=") # <<>>
                    /\ IntOf(ParamOf(url, "&page=")) = i
                    /\ ppos + Len(ParamOf(url, "&page=")) = Len(url)
                    /\ ParamOf(url, "&count=") # <<>>
                    /\ cpos + Len(ParamOf(url, "&count=")) + 1 = ppos
                    /\ IntOf(ParamOf(url, "&count=")) \in PageSizes
                    /\ ParamOf(url, "&count=") = ParamOf(urls'[1], "&count=")
                    /\ BaseOf(url) \in BaseUrls
                    /\ BaseOf(url) = BaseOf(urls'[1])]_vars

\* C18 witness: a call for three pages of ten has built its three URLs.
C18_Witness ==
    /\ pc = "submit"
    /\ Len(urls) = 3
    /\ urls[1] = <<"q", "?", "a", "=", "1", "&count=", "1", "0", "&page=", "1">>
    /\ urls[2] = <<"q", "?", "a", "=", "1", "&count=", "1", "0", "&page=", "2">>
    /\ urls[3] = <<"q", "?", "a", "=", "1", "&count=", "1", "0", "&page=", "3">>

\* C20 as stated: the viewer's startup never stops at the update step,
\* and a startup whose capture run has begun goes on to the GUI
\* initialisation.
C20_Original ==
    /\ [](pc # "crashed")
    /\ (pc = "submit") ~> (pc = "gui")

=============================================================================
